---- MODULE Spec2Model ----
(***************************************************************************)
(* Card-token lifecycle and payment submission of the ANZ Worldline demo   *)
(* application: the localStorage token store, the CardForm tokenization    *)
(* handler, the PaymentHistory charge handler, the App state that links    *)
(* them, and the Express /api/process-payment handler.                     *)
(*                                                                         *)
(* JavaScript values are represented as follows.  A JS object is a TLA+    *)
(* function from property names to values.  null is the record Null.  A    *)
(* string whose characters matter (card number, expiry, cvv, holder,       *)
(* amount) is a sequence of one-character strings; an opaque string        *)
(* (token, customer id, payment id) is a TLA+ string.  An error message is *)
(* the sequence of the parts it is concatenated from; <<>> is "no error".  *)
(***************************************************************************)
EXTENDS Integers, Sequences, FiniteSets, TLC

\* ------------------------------------------------------------------------
\* Bounds of the model
\* ------------------------------------------------------------------------
MaxClock == 2
MaxHistory == 2
MaxPayments == 3

\* ------------------------------------------------------------------------
\* JavaScript values
\* ------------------------------------------------------------------------
Null == [jsNull |-> TRUE]

Undefined == [jsUndefined |-> TRUE]

JsNumber(n) == [jsNumber |-> n]

IsObject(v) == DOMAIN v \subseteq
  {"cardToken", "maskedCardNumber", "cardType", "cardHolder", "expiryDate",
   "paymentProductId", "customerId", "createdAt"}

NotUndefined(v) == v # Undefined

\* JS truthiness of the values that reach `if (card)` / `!cardData`
Truthy(v) ==
  IF v = Null THEN FALSE
  ELSE IF DOMAIN v = {"jsNumber"} THEN v.jsNumber # 0
  ELSE TRUE

\* `!cardData.cardToken` is false only for a present, non-empty token
HasCardToken(v) ==
  /\ IsObject(v)
  /\ "cardToken" \in DOMAIN v
  /\ v.cardToken # ""

\* Property insertion order of the tokenData literal (JSON.stringify keeps it)
KeyOrder ==
  <<"cardToken", "maskedCardNumber", "cardType", "cardHolder", "expiryDate",
    "paymentProductId", "customerId", "createdAt">>

\* ------------------------------------------------------------------------
\* JSON text.  A text is [kind, pairs, raw]: the serialisation of an object
\* is the sequence of its key/value pairs in insertion order; any other
\* text is kept as its raw characters.
\* ------------------------------------------------------------------------
NoItem == [kind |-> "absent", pairs |-> <<>>, raw |-> ""]

RawText(s) == [kind |-> "raw", pairs |-> <<>>, raw |-> s]

Numeral(n) == CASE n = 0 -> "0" [] n = 42 -> "42"

JSONstringify(obj) ==
  IF obj = Null THEN RawText("null")
  ELSE IF DOMAIN obj = {"jsNumber"} THEN RawText(Numeral(obj.jsNumber))
  ELSE LET present == SelectSeq(KeyOrder, LAMBDA k : k \in DOMAIN obj)
       IN  [kind  |-> "object",
            pairs |-> [i \in 1..Len(present) |->
                         [k |-> present[i], v |-> obj[present[i]]]],
            raw   |-> ""]

\* JSON.parse: [threw, val]
JSONparse(text) ==
  IF text.kind = "object"
    THEN LET ks == {text.pairs[i].k : i \in 1..Len(text.pairs)}
         IN  [threw |-> FALSE,
              val |-> [key \in ks |->
                         LET i == CHOOSE j \in 1..Len(text.pairs) :
                                     text.pairs[j].k = key
                         IN  text.pairs[i].v]]
  ELSE IF text.raw = "null" THEN [threw |-> FALSE, val |-> Null]
  ELSE IF text.raw = "42"   THEN [threw |-> FALSE, val |-> JsNumber(42)]
  ELSE IF text.raw = "0"    THEN [threw |-> FALSE, val |-> JsNumber(0)]
  ELSE [threw |-> TRUE, val |-> Null]

\* ------------------------------------------------------------------------
\* Token store (localStorage utilities).  Each operation is given the slot
\* text, whether window.localStorage can be accessed at all, and (save only)
\* whether setItem throws QuotaExceededError; it yields the return value and
\* the slot afterwards.
\* ------------------------------------------------------------------------
\* save whose failed write drops the item the slot held
saveFailureDropsItem(slot, available, quotaExceeded, cardData) ==
  IF ~Truthy(cardData) \/ ~HasCardToken(cardData)
    THEN [ret |-> FALSE, slot |-> slot]
  ELSE IF ~available
    THEN [ret |-> FALSE, slot |-> slot]
  ELSE IF quotaExceeded
    THEN [ret |-> FALSE, slot |-> NoItem]
  ELSE [ret |-> TRUE, slot |-> JSONstringify(cardData)]

\* save that keeps an item already in the slot
saveKeepsFirst(slot, available, quotaExceeded, cardData) ==
  IF ~Truthy(cardData) \/ ~HasCardToken(cardData)
    THEN [ret |-> FALSE, slot |-> slot]
  ELSE IF ~available \/ quotaExceeded
    THEN [ret |-> FALSE, slot |-> slot]
  ELSE IF slot.kind = "object"
    THEN [ret |-> TRUE, slot |-> slot]
  ELSE [ret |-> TRUE, slot |-> JSONstringify(cardData)]

\* save without the `!cardData || !cardData.cardToken` guard
saveUnchecked(slot, available, quotaExceeded, cardData) ==
  IF ~available \/ quotaExceeded
    THEN [ret |-> FALSE, slot |-> slot]
    ELSE [ret |-> TRUE, slot |-> JSONstringify(cardData)]

save(slot, available, quotaExceeded, cardData) ==
  IF ~Truthy(cardData) \/ ~HasCardToken(cardData)
    THEN [ret |-> FALSE, slot |-> slot]
  ELSE IF ~available \/ quotaExceeded
    THEN [ret |-> FALSE, slot |-> slot]
  ELSE [ret |-> TRUE, slot |-> JSONstringify(cardData)]

\* load without the try/catch around getItem
loadUnguarded(slot, available) ==
  IF slot.kind = "absent" \/ (slot.kind = "raw" /\ slot.raw = "")
    THEN Null
  ELSE IF JSONparse(slot).threw THEN Null
  ELSE JSONparse(slot).val

load(slot, available) ==
  IF ~available THEN Null
  ELSE IF slot.kind = "absent" \/ (slot.kind = "raw" /\ slot.raw = "")
    THEN Null
  ELSE IF JSONparse(slot).threw THEN Null
  ELSE JSONparse(slot).val

\* clear that reports success without removing the item
clearKeepsItem(slot, available) ==
  IF ~available
    THEN [ret |-> FALSE, slot |-> slot]
    ELSE [ret |-> TRUE, slot |-> slot]

clear(slot, available) ==
  IF ~available
    THEN [ret |-> FALSE, slot |-> slot]
    ELSE [ret |-> TRUE, slot |-> NoItem]

\* ------------------------------------------------------------------------
\* Character strings
\* ------------------------------------------------------------------------
Digits == {"0", "1", "2", "3", "4", "5", "6", "7", "8", "9"}

Rep(c, n) == [i \in 1..n |-> c]

\* s.replace(/\s/g, '')
StripSpaces(s) == SelectSeq(s, LAMBDA c : c # " ")

\* s.replace(/\D/g, '')
OnlyDigits(s) == SelectSeq(s, LAMBDA c : c \in Digits)

\* s.trim() for strings whose only whitespace is the blank
RECURSIVE TrimLeft(_)
TrimLeft(s) == IF s # <<>> /\ Head(s) = " " THEN TrimLeft(Tail(s)) ELSE s

Reverse(s) == [i \in 1..Len(s) |-> s[Len(s) + 1 - i]]

Trim(s) == Reverse(TrimLeft(Reverse(TrimLeft(s))))

\* s.slice(-n)
SliceLast(s, n) == IF Len(s) <= n THEN s ELSE SubSeq(s, Len(s) - n + 1, Len(s))

\* s.padStart(n, c)
PadStart(s, n, c) == IF Len(s) >= n THEN s ELSE Rep(c, n - Len(s)) \o s

\* ------------------------------------------------------------------------
\* CardForm helpers
\* ------------------------------------------------------------------------
detectCardType(cardNumber) ==
  LET cleanNumber == OnlyDigits(cardNumber)
      At(i) == IF Len(cleanNumber) >= i THEN cleanNumber[i] ELSE ""
  IN  IF At(1) = "4" THEN "VISA"
      ELSE IF At(1) = "5" /\ At(2) \in {"1", "2", "3", "4", "5"}
        THEN "MASTERCARD"
      ELSE IF At(1) = "3" /\ At(2) \in {"4", "7"} THEN "AMEX"
      ELSE IF At(1) = "6" /\ At(2) = "0" /\ At(3) = "1" /\ At(4) = "1"
        THEN "DISCOVER"
      ELSE "UNKNOWN"

\* a mask padded to the length of the raw input
maskCardNumberRawLength(cardNumber) ==
  LET digits == StripSpaces(cardNumber)
  IN  PadStart(SliceLast(digits, 4), Len(cardNumber), "*")

maskCardNumber(cardNumber) ==
  LET digits == StripSpaces(cardNumber)
  IN  PadStart(SliceLast(digits, 4), Len(digits), "*")

\* /^\d{2}\/\d{2}$/.test(s)
MatchesMMYY(s) ==
  /\ Len(s) = 5
  /\ s[1] \in Digits /\ s[2] \in Digits
  /\ s[3] = "/"
  /\ s[4] \in Digits /\ s[5] \in Digits

\* validateFormData: the set of keys of the `errors` object
validateFormData(fd) ==
  LET cardDigits == StripSpaces(fd.cardNumber)
  IN  (IF Len(cardDigits) < 13 \/ Len(cardDigits) > 19
         THEN {"cardNumber"} ELSE {})
      \cup (IF ~MatchesMMYY(fd.expiryDate) THEN {"expiryDate"} ELSE {})
      \cup (IF Len(fd.cvv) < 3 \/ Len(fd.cvv) > 4 THEN {"cvv"} ELSE {})
      \cup (IF Trim(fd.cardHolder) = <<>> THEN {"cardHolder"} ELSE {})

\* a conversion that only drops the slash
WireExpiryTwoDigitYear(expiryDate) ==
  SelectSeq(expiryDate, LAMBDA c : c # "/")

\* expiry conversion of handleTokenize: MM/YY -> MMYYYY
WireExpiry(expiryDate) ==
  IF \E i \in 1..Len(expiryDate) : expiryDate[i] = "/"
    THEN LET p == CHOOSE i \in 1..Len(expiryDate) :
                    /\ expiryDate[i] = "/"
                    /\ \A j \in 1..(i - 1) : expiryDate[j] # "/"
             month == SubSeq(expiryDate, 1, p - 1)
             rest  == SubSeq(expiryDate, p + 1, Len(expiryDate))
             q == IF \E i \in 1..Len(rest) : rest[i] = "/"
                    THEN CHOOSE i \in 1..Len(rest) :
                           /\ rest[i] = "/"
                           /\ \A j \in 1..(i - 1) : rest[j] # "/"
                    ELSE Len(rest) + 1
             year == SubSeq(rest, 1, q - 1)
             fullYear == IF Len(year) = 2 THEN <<"2", "0">> \o year ELSE year
         IN  month \o fullYear
    ELSE expiryDate

TokenDataRawNumber(cardToken, fd, customerId, createdAt) ==
  [cardToken        |-> cardToken,
   maskedCardNumber |-> fd.cardNumber,
   cardType         |-> detectCardType(fd.cardNumber),
   cardHolder       |-> fd.cardHolder,
   expiryDate       |-> fd.expiryDate,
   paymentProductId |-> 1,
   customerId       |-> customerId,
   createdAt        |-> createdAt]

\* the tokenData literal of handleTokenize
TokenData(cardToken, fd, customerId, createdAt) ==
  [cardToken        |-> cardToken,
   maskedCardNumber |-> maskCardNumber(fd.cardNumber),
   cardType         |-> detectCardType(fd.cardNumber),
   cardHolder       |-> fd.cardHolder,
   expiryDate       |-> fd.expiryDate,
   paymentProductId |-> 1,
   customerId       |-> customerId,
   createdAt        |-> createdAt]

\* ------------------------------------------------------------------------
\* Inputs of the model
\* ------------------------------------------------------------------------
TestUser == <<"T", "E", "S", "T", " ", "U", "S", "E", "R">>

Expiry1225 == <<"1", "2", "/", "2", "5">>

VisaCard ==
  [cardNumber |-> <<"4">> \o Rep("1", 15), expiryDate |-> Expiry1225,
   cvv |-> <<"1", "2", "3">>, cardHolder |-> TestUser]

AmexCard ==
  [cardNumber |-> <<"3", "7", "8", "2", "8", "2", "2", "4", "6", "3", "1",
                    "0", "0", "0", "5">>,
   expiryDate |-> Expiry1225,
   cvv |-> <<"1", "2", "3", "4">>, cardHolder |-> TestUser]

\* the card number typed by hand with blanks as separators
SpacedNumber ==
  <<"5", "5", "5", "5", " ", "5", "5", "5", "5", " ",
    "5", "5", "5", "5", " ", "4", "4", "4", "4">>

\* every field fails local validation
BadCard ==
  [cardNumber |-> <<"4", "1", "1", "1">>, expiryDate |-> <<"1", "/", "2", "5">>,
   cvv |-> <<"1", "2">>, cardHolder |-> <<" ">>]

TestCards == {VisaCard, AmexCard}

EncryptedTokens == {"tokA"}

CustomerIds == {"cust1"}

\* what the slot may hold when the page is opened
InitialSlots ==
  {NoItem,
   RawText(""), RawText("not json"), RawText("null"), RawText("42"),
   JSONstringify(TokenData("tok0", VisaCard, "cust0", 0)),
   JSONstringify([maskedCardNumber |-> maskCardNumber(VisaCard.cardNumber),
                  cardType |-> "VISA"])}

\* candidates handed to save()
Candidates ==
  {Null, JsNumber(42),
   [maskedCardNumber |-> maskCardNumber(VisaCard.cardNumber),
    cardType |-> "VISA"],
   TokenData("", AmexCard, "cust1", 1),
   TokenData("tokA", VisaCard, "cust1", 1),
   TokenData("tokA", AmexCard, "cust1", 2)}

\* ------------------------------------------------------------------------
\* IEEE-754 binary64 arithmetic of Math.round(parseFloat(s) * 100).
\* A natural beyond 31 bits is a sequence of limbs in base 2^15, most
\* significant first, without leading zero limbs.
\* ------------------------------------------------------------------------
LimbBase == 32768

DigitValue(c) ==
  CASE c = "0" -> 0 [] c = "1" -> 1 [] c = "2" -> 2 [] c = "3" -> 3
    [] c = "4" -> 4 [] c = "5" -> 5 [] c = "6" -> 6 [] c = "7" -> 7
    [] c = "8" -> 8 [] c = "9" -> 9

RECURSIVE DecimalValue(_)
DecimalValue(ds) ==
  IF ds = <<>> THEN 0
  ELSE 10 * DecimalValue(SubSeq(ds, 1, Len(ds) - 1)) + DigitValue(ds[Len(ds)])

RECURSIVE Pow10(_)
Pow10(n) == IF n = 0 THEN 1 ELSE 10 * Pow10(n - 1)

RECURSIVE Pow2(_)
Pow2(n) == IF n = 0 THEN 1 ELSE 2 * Pow2(n - 1)

RECURSIVE BitLen(_)
BitLen(n) == IF n = 0 THEN 0 ELSE 1 + BitLen(n \div 2)

RECURSIVE ToLimbs(_)
ToLimbs(n) ==
  IF n = 0 THEN <<>> ELSE Append(ToLimbs(n \div LimbBase), n % LimbBase)

RECURSIVE FromLimbs(_)
FromLimbs(a) ==
  IF a = <<>> THEN 0
  ELSE LimbBase * FromLimbs(SubSeq(a, 1, Len(a) - 1)) + a[Len(a)]

LimbsBitLen(a) ==
  IF a = <<>> THEN 0 ELSE 15 * (Len(a) - 1) + BitLen(a[1])

\* a * c for 0 < c <= 2^15: [limbs, carry] from the least significant limb
RECURSIVE MulCarry(_, _)
MulCarry(a, c) ==
  IF a = <<>> THEN [limbs |-> <<>>, carry |-> 0]
  ELSE LET rest == MulCarry(Tail(a), c)
           t == a[1] * c + rest.carry
       IN  [limbs |-> <<t % LimbBase>> \o rest.limbs,
            carry |-> t \div LimbBase]

MulSmall(a, c) ==
  LET r == MulCarry(a, c)
  IN  IF r.carry = 0 THEN r.limbs ELSE <<r.carry>> \o r.limbs

\* a * 2^k
RECURSIVE ShiftLeft(_, _)
ShiftLeft(a, k) ==
  IF k >= 15 THEN ShiftLeft(a, k - 15) \o <<0>>
  ELSE IF k = 0 THEN a
  ELSE MulSmall(a, Pow2(k))

\* a divided by d, 0 < d <= 2^15: [q, r], the quotient with leading zeros
RECURSIVE DivRem(_, _, _)
DivRem(a, d, r) ==
  IF a = <<>> THEN [q |-> <<>>, r |-> r]
  ELSE LET t == r * LimbBase + a[1]
           rest == DivRem(Tail(a), d, t % d)
       IN  [q |-> <<t \div d>> \o rest.q, r |-> rest.r]

RECURSIVE StripZeros(_)
StripZeros(b) == IF b # <<>> /\ Head(b) = 0 THEN StripZeros(Tail(b)) ELSE b

\* a + 1
RECURSIVE Incr(_)
Incr(a) ==
  IF a = <<>> THEN <<1>>
  ELSE IF a[Len(a)] < LimbBase - 1
    THEN SubSeq(a, 1, Len(a) - 1) \o <<a[Len(a)] + 1>>
  ELSE Incr(SubSeq(a, 1, Len(a) - 1)) \o <<0>>

\* floor(a / 2^k)
RECURSIVE ShiftRight(_, _)
ShiftRight(a, k) ==
  IF a = <<>> THEN <<>>
  ELSE IF k >= 15 THEN ShiftRight(SubSeq(a, 1, Len(a) - 1), k - 15)
  ELSE IF k = 0 THEN a
  ELSE StripZeros(DivRem(a, Pow2(k), 0).q)

\* a double > 0 is [m, e]: the 53-bit mantissa m and the value m * 2^e.
\* Round-to-nearest-even of num * 2^k / den, renormalised to 53 bits.
RoundedQuotient(num, den, k) ==
  LET d == DivRem(ShiftLeft(ToLimbs(num), k), den, 0)
      q == StripZeros(d.q)
      up == \/ 2 * d.r > den
            \/ (2 * d.r = den /\ q # <<>> /\ q[Len(q)] % 2 = 1)
      m == IF up THEN Incr(q) ELSE q
  IN  IF LimbsBitLen(m) = 54 THEN [m |-> ShiftRight(m, 1), e |-> 1 - k]
                             ELSE [m |-> m, e |-> 0 - k]

\* the double nearest to num / den (num > 0, den <= 10^4)
ToDouble(num, den) ==
  LET k0 == 53 - BitLen(num) + BitLen(den)
      len0 == LimbsBitLen(StripZeros(
                DivRem(ShiftLeft(ToLimbs(num), k0), den, 0).q))
  IN  IF len0 = 53 THEN RoundedQuotient(num, den, k0)
                   ELSE RoundedQuotient(num, den, k0 - 1)

\* x * 100 in binary64: the exact product rounded to 53 bits, ties to even
Times100(x) ==
  LET p == MulSmall(x.m, 100)
      s == LimbsBitLen(p) - 53
      d == DivRem(p, Pow2(s), 0)
      top == StripZeros(d.q)
      up == \/ 2 * d.r > Pow2(s)
            \/ (2 * d.r = Pow2(s) /\ top[Len(top)] % 2 = 1)
      m == IF up THEN Incr(top) ELSE top
  IN  IF LimbsBitLen(m) = 54 THEN [m |-> ShiftRight(m, 1), e |-> x.e + s + 1]
                             ELSE [m |-> m, e |-> x.e + s]

\* Math.floor(x), for 0 < x < 2^30
MathFloor(x) ==
  IF x.e >= 0 THEN FromLimbs(ShiftLeft(x.m, x.e))
  ELSE FromLimbs(ShiftRight(x.m, 0 - x.e))

\* Math.round(x) = floor(x + 1/2), for 0 < x < 2^30
MathRound(x) ==
  IF x.e >= 0 THEN FromLimbs(ShiftLeft(x.m, x.e))
  ELSE LET twice == FromLimbs(ShiftRight(x.m, 0 - x.e - 1))
       IN  (twice \div 2) + (twice % 2)

\* parseFloat of an unsigned decimal literal: [zero, m, e]
parseFloat(s) ==
  LET dot == IF \E i \in 1..Len(s) : s[i] = "."
               THEN CHOOSE i \in 1..Len(s) : s[i] = "."
               ELSE Len(s) + 1
      intPart == SubSeq(s, 1, dot - 1)
      fracPart == SubSeq(s, dot + 1, Len(s))
      num == DecimalValue(intPart \o fracPart)
      den == Pow10(Len(fracPart))
  IN  IF num = 0 THEN [zero |-> TRUE, m |-> <<>>, e |-> 0]
      ELSE [zero |-> FALSE, m |-> ToDouble(num, den).m,
            e |-> ToDouble(num, den).e]

\* Math.round(parseFloat(formData.amount) * 100)
AmountInMinorUnits(amount) ==
  LET x == parseFloat(amount)
  IN  IF x.zero THEN 0 ELSE MathRound(Times100(x))

Amt100 == <<"1", "0", "0", ".", "0", "0">>
Amt7799 == <<"7", "7", ".", "9", "9">>
Amt10005 == <<"1", "0", ".", "0", "0", "5">>
Amt1005 == <<"1", ".", "0", "0", "5">>

Amounts == {Amt100, Amt7799, Amt10005, Amt1005}

\* ------------------------------------------------------------------------
\* State
\* ------------------------------------------------------------------------
VARIABLES
  storage,           \* text under localStorage key 'worldline_card'
  storageAvailable,  \* FALSE: every access to window.localStorage throws
  lastOp, lastArg, lastRet, slotBefore,  \* last direct call of the store API
  now,               \* reading of the clock
  session, sessLoading, sessError,       \* useWorldlineSession
  mounted, currentToken, tokenHistory,   \* App
  formData, cardLoading, cardError, fieldErrors,   \* CardForm state
  tokPc, tokCtx, paymentRequest,         \* handleTokenize in flight
  abandoned,         \* encrypt() calls still pending after their timer won
  amount, payLoading, payError, success, lastPaymentId,  \* PaymentHistory
  payPc, request, response,              \* handleChargeWithToken in flight
  gatewayLog,        \* SDK calls made by the server for the current request
  url,               \* query parameters paymentId and status of the location
  sessionStore,      \* window.sessionStorage
  status, statusMounted,   \* PaymentStatus
  paymentSeq,        \* payments the gateway has numbered so far
  shown,             \* payment ids PaymentStatus has displayed so far
  env,               \* which credentials the server process is configured with
  sessionResponse    \* what POST /api/session has answered

storeVars == <<storage, storageAvailable>>
apiVars == <<lastOp, lastArg, lastRet, slotBefore>>
sessVars == <<session, sessLoading, sessError>>
appVars == <<mounted, currentToken, tokenHistory>>
cardVars == <<formData, cardLoading, cardError, fieldErrors>>
tokVars == <<tokPc, tokCtx, paymentRequest, abandoned>>
payVars == <<amount, payLoading, payError, success, lastPaymentId, payPc>>
netVars == <<request, response>>

resultVars == <<url, sessionStore, status, statusMounted, paymentSeq, shown>>

serverVars == <<env, sessionResponse>>

vars == <<storeVars, apiVars, resultVars, serverVars,
          now, sessVars, appVars, cardVars, tokVars,
          payVars, netVars, gatewayLog>>

\* all three credentials are set
Configured == [pspid |-> TRUE, apiKeyId |-> TRUE, secretApiKey |-> TRUE]

\* a location without query parameters
NoParams == [page |-> "app", paymentId |-> "", status |-> ""]

\* an empty sessionStorage
NoItems ==
  [showPaymentStatus |-> "", lastPaymentId |-> "", lastPaymentStatus |-> "",
   pendingPaymentId |-> ""]

NoError == <<>>
NoId == ""
NoCtx == [form |-> VisaCard, session |-> Null, history |-> <<>>]
NoRequest == [none |-> TRUE]
NoResponse == [kind |-> "none", status |-> 0, body |-> Null]

\* state of the React tree and of the server before anything has run
\* everything but the card form's fields, as constructed
InitExceptForm ==
  /\ lastOp = "none" /\ lastArg = Null /\ lastRet = Null
  /\ slotBefore = NoItem
  /\ now = 0
  /\ session = Null /\ sessLoading = TRUE /\ sessError = NoError
  /\ mounted = FALSE /\ currentToken = Null /\ tokenHistory = <<>>
  /\ cardLoading = FALSE /\ cardError = NoError
  /\ fieldErrors = {}
  /\ tokPc = "idle" /\ tokCtx = NoCtx /\ paymentRequest = Null
  /\ abandoned = <<>>
  /\ amount = Amt100 /\ payLoading = FALSE /\ payError = NoError
  /\ success = FALSE /\ lastPaymentId = NoId
  /\ payPc = "idle" /\ request = NoRequest /\ response = NoResponse
  /\ gatewayLog = <<>>
  /\ url = NoParams /\ sessionStore = NoItems
  /\ status = Null /\ statusMounted = FALSE
  /\ paymentSeq = 0 /\ shown = {}
  /\ sessionResponse = NoResponse

\* CardForm.jsx useState: the form starts on testCards[0]
InitIdle ==
  /\ InitExceptForm
  /\ formData = VisaCard

\* ------------------------------------------------------------------------
\* The store API called directly: save(candidate), load(), clear()
\* ------------------------------------------------------------------------
StoreInit ==
  /\ storage \in InitialSlots
  /\ storageAvailable \in BOOLEAN
  /\ InitIdle
  /\ env = Configured

ApiUnchanged ==
  UNCHANGED <<storageAvailable, resultVars, serverVars,
              now, sessVars, appVars, cardVars, tokVars,
              payVars, netVars, gatewayLog>>

CallSave(candidate, quotaExceeded) ==
  LET r == save(storage, storageAvailable, quotaExceeded, candidate)
  IN  /\ storage' = r.slot
      /\ lastOp' = "save" /\ lastArg' = candidate
      /\ lastRet' = [bool |-> r.ret]
      /\ slotBefore' = storage
      /\ ApiUnchanged

CallLoad ==
  /\ lastOp' = "load" /\ lastArg' = Null
  /\ lastRet' = load(storage, storageAvailable)
  /\ slotBefore' = storage
  /\ UNCHANGED storage
  /\ ApiUnchanged

CallClear ==
  LET r == clear(storage, storageAvailable)
  IN  /\ storage' = r.slot
      /\ lastOp' = "clear" /\ lastArg' = Null
      /\ lastRet' = [bool |-> r.ret]
      /\ slotBefore' = storage
      /\ ApiUnchanged

StoreNext ==
  \/ \E c \in Candidates, q \in BOOLEAN : CallSave(c, q)
  \/ CallLoad
  \/ CallClear

StoreSpec == StoreInit /\ [][StoreNext]_vars

\* ------------------------------------------------------------------------
\* useWorldlineSession: the session collaborator
\* ------------------------------------------------------------------------
MsgSessionFailed == <<"Could not initialize payment session: ", "Backend error">>

\* the body of POST /api/session: the payment context of CardForm
SessionRequestBody ==
  [countryCode |-> "AU", currencyCode |-> "AUD", amount |-> 6767]

\* initializeSession settles: credentials arrived and the SDK session was
\* built, or fetchSessionCredentials threw
SessionSettled(ok, customerId) ==
  /\ sessLoading
  /\ IF ok
       THEN /\ session' = [customerId |-> customerId]
            /\ sessError' = sessError
       ELSE /\ session' = Null
            /\ sessError' = MsgSessionFailed
  /\ sessLoading' = FALSE
  /\ UNCHANGED <<storeVars, apiVars, resultVars, serverVars,
                 now, appVars, cardVars, tokVars,
                 payVars, netVars, gatewayLog>>

\* retry: initializeSession called again
RetrySession ==
  /\ ~sessLoading
  /\ sessLoading' = TRUE
  /\ sessError' = NoError
  /\ UNCHANGED <<session, storeVars, apiVars, resultVars, serverVars,
                 now, appVars, cardVars,
                 tokVars, payVars, netVars, gatewayLog>>

\* ------------------------------------------------------------------------
\* App
\* ------------------------------------------------------------------------
CreatedAtOf(card) ==
  IF IsObject(card) /\ "createdAt" \in DOMAIN card
    THEN JsNumber(card.createdAt) ELSE Undefined

\* useEffect(() => { const card = localStorage.load() ... }, [])
Mount ==
  /\ ~mounted
  /\ mounted' = TRUE
  /\ LET card == load(storage, storageAvailable)
     IN  IF Truthy(card)
           THEN /\ currentToken' = card
                /\ tokenHistory' = <<[id |-> CreatedAtOf(card),
                                      token |-> JSONstringify(card),
                                      timestamp |-> CreatedAtOf(card)]>>
           ELSE UNCHANGED <<currentToken, tokenHistory>>
  /\ UNCHANGED <<storeVars, apiVars, resultVars, serverVars,
                 now, sessVars, cardVars, tokVars,
                 payVars, netVars, gatewayLog>>

\* handleTokenGenerated as closed over `history`: the next tokenHistory and
\* currentToken, given the slot after the save
TokenGeneratedHistory(tokenJsonString, history, time) ==
  <<[id |-> JsNumber(time), token |-> tokenJsonString,
     timestamp |-> JsNumber(time)]>> \o history

TokenGeneratedCurrent(slot, available, current) ==
  LET card == load(slot, available)
  IN  IF Truthy(card) THEN card ELSE current

\* ------------------------------------------------------------------------
\* CardForm
\* ------------------------------------------------------------------------
MsgCorrectErrors == <<"Please correct the errors below">>
MsgNoSession ==
  <<"Session not initialized. Click \"Retry\" or refresh the page.">>
MsgNoEncryptor ==
  <<"Encryptor not available. Session may not be properly initialized.">>
MsgSaveFailed == <<"Failed to save card">>

\* errorMap of handleTokenize
SdkErrorMessage(errorId) ==
  CASE errorId = "luhn" -> <<"Invalid card number (failed checksum)">>
    [] errorId = "expirationDate" ->
         <<"Card expired or invalid expiration date">>
    [] errorId = "regularExpression" -> <<"Invalid format detected">>
    [] errorId = "length" -> <<"Field length is incorrect">>
    [] errorId = "range" -> <<"Value is outside the allowed range">>
    [] errorId = "required" -> <<"This field is required">>
    [] OTHER -> <<"Validation error: ", errorId>>

\* errorMessages.join(', ')
RECURSIVE JoinMessages(_)
JoinMessages(ids) ==
  IF ids = <<>> THEN <<>>
  ELSE IF Len(ids) = 1 THEN SdkErrorMessage(ids[1])
  ELSE SdkErrorMessage(ids[1]) \o <<", ">> \o JoinMessages(Tail(ids))

MsgSdkValidation(ids) == <<"Payment validation failed: ">> \o JoinMessages(ids)

MsgEncryption(errorMsg) == <<"Payment encryption failed: ", errorMsg>>

\* paymentRequest.getErrorMessageIds() as the SDK may report them
SdkValidationResults == {<<>>, <<"luhn">>, <<"expirationDate", "iban">>}

\* how the race of encryptor.encrypt against the 5 s timer may settle
EncryptOutcomes ==
  {[kind |-> "resolved", value |-> t] : t \in EncryptedTokens \cup {""}}
  \cup {[kind |-> "rejected", value |-> "SDK error"],
        [kind |-> "timeout", value |-> "Encryption timeout"]}

\* how an encrypt() call itself can settle
LateOutcomes == {o \in EncryptOutcomes : o.kind # "timeout"}

\* values typed into the card number and the holder field
TypedValues(name) ==
  IF name = "cardNumber" THEN {SpacedNumber, BadCard.cardNumber}
  ELSE {BadCard.cardHolder}

HandleTestCardChange(card) ==
  /\ formData' = card
  /\ cardError' = NoError
  /\ UNCHANGED <<cardLoading, fieldErrors, storeVars, apiVars, resultVars, serverVars,
                 
                 now, sessVars,
                 appVars, tokVars, payVars, netVars, gatewayLog>>

HandleInputChange(name, value) ==
  /\ formData' = [formData EXCEPT ![name] = value]
  /\ fieldErrors' = fieldErrors \ {name}
  /\ UNCHANGED <<cardLoading, cardError, storeVars, apiVars, resultVars, serverVars,
                 
                 now, sessVars,
                 appVars, tokVars, payVars, netVars, gatewayLog>>

\* a handler that asks for the payment product before it looks at the
\* result of the validation
HandleTokenizeFetchesFirst ==
  /\ mounted
  /\ ~cardLoading /\ tokPc = "idle"
  /\ now < MaxClock
  /\ Len(tokenHistory) < MaxHistory
  /\ LET errors == validateFormData(formData)
     IN  /\ fieldErrors' = errors
         /\ IF session = Null
              THEN /\ cardError' = MsgNoSession
                   /\ UNCHANGED <<cardLoading, tokVars>>
              ELSE /\ cardError' =
                        (IF errors # {} THEN MsgCorrectErrors ELSE NoError)
                   /\ cardLoading' = TRUE
                   /\ tokPc' = "getPaymentProduct"
                   /\ tokCtx' = [form |-> formData, session |-> session,
                                 history |-> tokenHistory]
                   /\ UNCHANGED <<paymentRequest, abandoned>>
  /\ UNCHANGED <<formData, storeVars, apiVars, resultVars, serverVars,
                 now, sessVars, appVars,
                 payVars, netVars, gatewayLog>>

\* a handler that records the field errors but goes on regardless
HandleTokenizeIgnoresErrors ==
  /\ mounted
  /\ ~cardLoading /\ tokPc = "idle"
  /\ now < MaxClock
  /\ Len(tokenHistory) < MaxHistory
  /\ fieldErrors' = validateFormData(formData)
  /\ IF session = Null
       THEN /\ cardError' = MsgNoSession
            /\ UNCHANGED <<cardLoading, tokVars>>
       ELSE /\ cardError' = NoError
            /\ cardLoading' = TRUE
            /\ tokPc' = "getPaymentProduct"
            /\ tokCtx' = [form |-> formData, session |-> session,
                          history |-> tokenHistory]
            /\ UNCHANGED <<paymentRequest, abandoned>>
  /\ UNCHANGED <<formData, storeVars, apiVars, resultVars, serverVars,
                 now, sessVars, appVars,
                 payVars, netVars, gatewayLog>>

\* handleTokenize up to its first await (session.getPaymentProduct)
HandleTokenize ==
  /\ mounted
  /\ ~cardLoading /\ tokPc = "idle"
  /\ now < MaxClock
  /\ Len(tokenHistory) < MaxHistory
  /\ LET errors == validateFormData(formData)
     IN  /\ fieldErrors' = errors
         /\ IF errors # {}
              THEN /\ cardError' = MsgCorrectErrors
                   /\ UNCHANGED <<cardLoading, tokVars>>
            ELSE IF session = Null
              THEN /\ cardError' = MsgNoSession
                   /\ UNCHANGED <<cardLoading, tokVars>>
              ELSE /\ cardError' = NoError
                   /\ cardLoading' = TRUE
                   /\ tokPc' = "getPaymentProduct"
                   /\ tokCtx' = [form |-> formData, session |-> session,
                                 history |-> tokenHistory]
                   /\ UNCHANGED <<paymentRequest, abandoned>>
  /\ UNCHANGED <<formData, storeVars, apiVars, resultVars, serverVars,
                 now, sessVars, appVars,
                 payVars, netVars, gatewayLog>>

\* getPaymentProduct settled (either way); field values are set, the SDK
\* validates the request and hands out the encryptor
PaymentProductSettled(sdkErrors, hasEncryptor) ==
  /\ tokPc = "getPaymentProduct"
  /\ IF sdkErrors # <<>>
       THEN /\ cardError' = MsgSdkValidation(sdkErrors)
            /\ cardLoading' = FALSE
            /\ tokPc' = "idle"
            /\ tokCtx' = NoCtx
            /\ paymentRequest' = Null
     ELSE IF ~hasEncryptor
       THEN /\ cardError' = MsgNoEncryptor
            /\ cardLoading' = FALSE
            /\ tokPc' = "idle"
            /\ tokCtx' = NoCtx
            /\ paymentRequest' = Null
       ELSE /\ tokPc' = "encrypt"
            /\ paymentRequest' =
                 [cardNumber |-> StripSpaces(tokCtx.form.cardNumber),
                  cvv |-> tokCtx.form.cvv,
                  expiryDate |-> WireExpiry(tokCtx.form.expiryDate),
                  cardholderName |-> tokCtx.form.cardHolder]
            /\ UNCHANGED <<cardError, cardLoading, tokCtx>>
  /\ UNCHANGED <<abandoned, formData, fieldErrors, storeVars, apiVars, resultVars, serverVars,
                 now,
                 sessVars, appVars, payVars, netVars, gatewayLog>>

\* the race settled: build tokenData, save it, notify App; or report.
\* `pending` are the encrypt() calls left unsettled afterwards
EncryptRaceSettled(outcome, quotaExceeded, pending) ==
  /\ tokPc = "encrypt"
  /\ now' = now + 1
  /\ tokPc' = "idle"
  /\ tokCtx' = NoCtx
  /\ cardLoading' = FALSE
  /\ paymentRequest' = Null
  /\ abandoned' = pending
  /\ IF outcome.kind = "resolved" /\ outcome.value # ""
       THEN LET data == TokenData(outcome.value, tokCtx.form,
                                  tokCtx.session.customerId, now')
                r == save(storage, storageAvailable, quotaExceeded, data)
            IN  /\ storage' = r.slot
                /\ IF r.ret
                     THEN /\ tokenHistory' =
                               TokenGeneratedHistory(JSONstringify(data),
                                                     tokCtx.history, now')
                          /\ currentToken' =
                               TokenGeneratedCurrent(r.slot, storageAvailable,
                                                     currentToken)
                          /\ UNCHANGED cardError
                     ELSE /\ cardError' = MsgSaveFailed
                          /\ UNCHANGED <<currentToken, tokenHistory>>
     ELSE /\ cardError' =
               MsgEncryption(IF outcome.kind = "resolved"
                               THEN "Encryptor returned empty result"
                               ELSE outcome.value)
          /\ UNCHANGED <<storage, currentToken, tokenHistory>>
  /\ UNCHANGED <<storageAvailable, mounted, formData, fieldErrors,
                 apiVars, resultVars, serverVars,
                 sessVars, payVars, netVars, gatewayLog>>

\* the race settled; a call the timer left pending is not followed further
EncryptSettled(outcome, quotaExceeded) ==
  EncryptRaceSettled(outcome, quotaExceeded, abandoned)

\* the 5 s timer rejected the race while encryptor.encrypt is still pending
EncryptTimedOut ==
  EncryptRaceSettled([kind |-> "timeout", value |-> "Encryption timeout"],
                     FALSE, Append(abandoned, tokCtx))

\* s without its i-th element
RemoveAt(s, i) == SubSeq(s, 1, i - 1) \o SubSeq(s, i + 1, Len(s))

\* a late result treated like one that arrived in time
AbandonedEncryptSettlesSaves(i, outcome) ==
  /\ i \in 1..Len(abandoned)
  /\ abandoned' = RemoveAt(abandoned, i)
  /\ IF outcome.kind = "resolved" /\ outcome.value # ""
       THEN LET data == TokenData(outcome.value, abandoned[i].form,
                                  abandoned[i].session.customerId, now)
                r == save(storage, storageAvailable, FALSE, data)
            IN  /\ storage' = r.slot
                /\ IF r.ret
                     THEN /\ tokenHistory' =
                               TokenGeneratedHistory(JSONstringify(data),
                                                     abandoned[i].history, now)
                          /\ currentToken' =
                               TokenGeneratedCurrent(r.slot, storageAvailable,
                                                     currentToken)
                          /\ UNCHANGED cardError
                     ELSE /\ cardError' = MsgSaveFailed
                          /\ UNCHANGED <<currentToken, tokenHistory>>
       ELSE /\ cardError' = MsgEncryption(outcome.value)
            /\ UNCHANGED <<storage, currentToken, tokenHistory>>
  /\ UNCHANGED <<storageAvailable, mounted, formData, cardLoading,
                 fieldErrors, tokPc, tokCtx, paymentRequest,
                 apiVars, resultVars, serverVars, now,
                 sessVars, payVars, netVars, gatewayLog>>

\* encryptor.encrypt settles after the timer rejected the race: Promise.race
\* has settled already and nothing reads the late result
AbandonedEncryptSettles(i, outcome) ==
  /\ i \in 1..Len(abandoned)
  /\ abandoned' = RemoveAt(abandoned, i)
  /\ UNCHANGED <<storeVars, appVars, formData, cardLoading, cardError,
                 fieldErrors, tokPc, tokCtx, paymentRequest,
                 apiVars, resultVars, serverVars, now,
                 sessVars, payVars, netVars, gatewayLog>>

\* ------------------------------------------------------------------------
\* PaymentHistory
\* ------------------------------------------------------------------------
MsgNoToken == <<"No token found">>
Msg3DS == <<"3D Secure authentication required. Check console for details.">>
MsgPaymentFailed == <<"Payment failed">>
MsgProcessingFailed == <<"Payment processing failed">>

\* a payload that forwards the expiry date kept in the token
PaymentPayloadWithExpiry(token, amountText) ==
  LET fromToken == {"cardToken", "customerId", "cardHolder", "expiryDate"}
                     \cap (IF IsObject(token) THEN DOMAIN token ELSE {})
  IN  [k \in fromToken \cup {"amount", "currency"} |->
         IF k = "amount" THEN AmountInMinorUnits(amountText)
         ELSE IF k = "currency" THEN "AUD"
         ELSE token[k]]

\* JSON.stringify(paymentPayload): properties whose value is undefined are
\* left out of the body
PaymentPayload(token, amountText) ==
  LET fromToken == {"cardToken", "customerId", "cardHolder"}
                     \cap (IF IsObject(token) THEN DOMAIN token ELSE {})
  IN  [k \in fromToken \cup {"amount", "currency"} |->
         IF k = "amount" THEN AmountInMinorUnits(amountText)
         ELSE IF k = "currency" THEN "AUD"
         ELSE token[k]]

\* an amount edit that also dismissed the result of the last charge
HandleAmountChangeResets(value) ==
  /\ amount' = value
  /\ success' = FALSE
  /\ UNCHANGED <<payLoading, payError, lastPaymentId, payPc,
                 storeVars, apiVars, resultVars, serverVars,
                 now, sessVars, appVars, cardVars,
                 tokVars, netVars, gatewayLog>>

\* PaymentHistory.jsx handleInputChange: only the amount changes
HandleAmountChange(value) ==
  /\ amount' = value
  /\ UNCHANGED <<payLoading, payError, success, lastPaymentId, payPc,
                 storeVars, apiVars, resultVars, serverVars,
                 now, sessVars, appVars, cardVars,
                 tokVars, netVars, gatewayLog>>

\* handleChargeWithToken up to the fetch
HandleChargeWithToken ==
  /\ mounted
  /\ ~payLoading /\ payPc = "idle"
  /\ success' = FALSE
  /\ lastPaymentId' = NoId
  /\ IF ~Truthy(currentToken)
       THEN /\ payError' = MsgNoToken
            /\ UNCHANGED <<payLoading, payPc, request>>
       ELSE /\ payError' = NoError
            /\ payLoading' = TRUE
            /\ payPc' = "fetch"
            /\ request' = PaymentPayload(currentToken, amount)
  /\ UNCHANGED <<amount, response, storeVars, apiVars, resultVars, serverVars,
                 now, sessVars,
                 appVars, cardVars, tokVars, gatewayLog>>

\* body.key: undefined when the property is missing
Prop(body, key) == IF key \in DOMAIN body THEN body[key] ELSE Undefined

HasKey(body, key) == key \in DOMAIN body

\* `if (result.success)` / `else if (result.requires3DS)`
HasTrue(body, key) == key \in DOMAIN body /\ body[key] = TRUE

\* a handler without the finally block: a rejected fetch leaves the flag set
ChargeSettledWithoutFinally ==
  /\ payPc = "fetch"
  /\ response # NoResponse
  /\ IF response.kind = "http"
       THEN IF HasTrue(response.body, "success")
              THEN /\ lastPaymentId' = Prop(response.body, "paymentId")
                   /\ success' = TRUE
                   /\ UNCHANGED payError
            ELSE IF HasTrue(response.body, "requires3DS")
              THEN /\ payError' = Msg3DS
                   /\ UNCHANGED <<success, lastPaymentId>>
              ELSE /\ payError' =
                        (IF "error" \in DOMAIN response.body
                           THEN <<response.body.error>>
                           ELSE MsgPaymentFailed)
                   /\ UNCHANGED <<success, lastPaymentId>>
       ELSE /\ payError' =
                 (IF response.body.message # ""
                    THEN <<response.body.message>>
                    ELSE MsgProcessingFailed)
            /\ UNCHANGED <<success, lastPaymentId>>
  /\ payLoading' = (response.kind # "http")
  /\ payPc' = "idle"
  /\ request' = NoRequest
  /\ response' = NoResponse
  /\ UNCHANGED <<amount, storeVars, apiVars, resultVars, serverVars,
                 now, sessVars, appVars,
                 cardVars, tokVars, gatewayLog>>

\* the fetch settled: response.json() and the three-way classification
ChargeSettled ==
  /\ payPc = "fetch"
  /\ response # NoResponse
  /\ IF response.kind = "http"
       THEN IF HasTrue(response.body, "success")
              THEN /\ lastPaymentId' = Prop(response.body, "paymentId")
                   /\ success' = TRUE
                   /\ UNCHANGED payError
            ELSE IF HasTrue(response.body, "requires3DS")
              THEN /\ payError' = Msg3DS
                   /\ UNCHANGED <<success, lastPaymentId>>
              ELSE /\ payError' =
                        (IF "error" \in DOMAIN response.body
                           THEN <<response.body.error>>
                           ELSE MsgPaymentFailed)
                   /\ UNCHANGED <<success, lastPaymentId>>
       ELSE /\ payError' =
                 (IF response.body.message # ""
                    THEN <<response.body.message>>
                    ELSE MsgProcessingFailed)
            /\ UNCHANGED <<success, lastPaymentId>>
  /\ payLoading' = FALSE
  /\ payPc' = "idle"
  /\ request' = NoRequest
  /\ response' = NoResponse
  /\ UNCHANGED <<amount, storeVars, apiVars, resultVars, serverVars,
                 now, sessVars, appVars,
                 cardVars, tokVars, gatewayLog>>

\* a clear that also re-enables the charge button
HandleClearTokenResetsLoading ==
  /\ mounted
  /\ storage' = clear(storage, storageAvailable).slot
  /\ currentToken' = Null
  /\ tokenHistory' = <<>>
  /\ payError' = NoError
  /\ success' = FALSE
  /\ lastPaymentId' = NoId
  /\ payLoading' = FALSE
  /\ UNCHANGED <<storageAvailable, mounted, amount, payPc,
                 apiVars, resultVars, serverVars,
                 now, sessVars, cardVars, tokVars, netVars,
                 gatewayLog>>

\* PaymentHistory.jsx handleClearToken with App's handleTokenCleared
HandleClearToken ==
  /\ mounted
  /\ storage' = clear(storage, storageAvailable).slot
  /\ currentToken' = Null
  /\ tokenHistory' = <<>>
  /\ payError' = NoError
  /\ success' = FALSE
  /\ lastPaymentId' = NoId
  /\ UNCHANGED <<storageAvailable, mounted, amount, payLoading, payPc,
                 apiVars, resultVars, serverVars,
                 now, sessVars, cardVars, tokVars, netVars,
                 gatewayLog>>

\* ------------------------------------------------------------------------
\* server.js: POST /api/process-payment
\* ------------------------------------------------------------------------
Http(code, body) == [kind |-> "http", status |-> code, body |-> body]

\* `!req.body.field`: the field is missing, '' or 0
Missing(body, key) ==
  \/ key \notin DOMAIN body
  \/ (key = "amount" /\ body[key] = 0)
  \/ (key # "amount" /\ body[key] = "")

\* what client.payments.createPayment may answer
GatewayOutcomes ==
  {[kind |-> "success", id |-> "pay1", status |-> st]
     : st \in {"CAPTURED", "PENDING_CAPTURE"}}
  \cup {[kind |-> "challenge", id |-> "pay2", status |-> "https://acs/3ds"],
        [kind |-> "declined", id |-> "pay3", status |-> "REJECTED"],
        [kind |-> "throws", id |-> "", status |-> "ECONNRESET"]}

MissingFieldsResponse ==
  Http(400, [error |-> "Missing required fields",
             message |-> "encryptedPaymentRequest, customerId, amount, and currency are required"])

\* the response written for an answer of createPayment
PaymentResponse(gw) ==
  IF gw.kind = "success"
    THEN Http(200, [success |-> TRUE, paymentId |-> gw.id,
                    status |-> gw.status, cardNumber |-> "N/A"])
  ELSE IF gw.kind = "challenge"
    THEN Http(402, [requires3DS |-> TRUE, paymentId |-> gw.id,
                    redirectUrl |-> gw.status,
                    message |-> "Customer authentication required"])
  ELSE IF gw.kind = "declined"
    THEN Http(400, [success |-> FALSE,
                    error |-> "Payment declined or processing failed",
                    status |-> gw.status, statusCode |-> 400])
  ELSE Http(500, [error |-> "Payment processing failed",
                  message |-> gw.status])

\* the createPayment call made for a request body
CreatePaymentCall(body) ==
  [op |-> "createPayment",
   encryptedCustomerInput |-> body.encryptedPaymentRequest,
   amount |-> body.amount,
   currencyCode |-> body.currency,
   merchantCustomerId |-> body.customerId]

\* the handler: [response, calls]
ProcessPaymentHandler(body, gw) ==
  IF \E k \in {"encryptedPaymentRequest", "customerId", "amount", "currency"}
       : Missing(body, k)
    THEN [response |-> MissingFieldsResponse, calls |-> <<>>]
    ELSE [response |-> PaymentResponse(gw),
          calls |-> <<CreatePaymentCall(body)>>]

ProcessPayment(gw) ==
  /\ request # NoRequest
  /\ response = NoResponse
  /\ response' = ProcessPaymentHandler(request, gw).response
  /\ gatewayLog' = ProcessPaymentHandler(request, gw).calls
  /\ UNCHANGED <<request, storeVars, apiVars, resultVars, serverVars,
                 now, sessVars, appVars,
                 cardVars, tokVars, payVars>>

\* fetch rejects: the request never got an HTTP answer
NetworkError ==
  [kind |-> "networkError", status |-> 0, body |-> [message |-> "Failed to fetch"]]

\* an error thrown without a message
BareError == [kind |-> "networkError", status |-> 0, body |-> [message |-> ""]]

\* an answer whose body is not JSON: response.json() rejects
NonJsonResponse ==
  [kind |-> "nonJson", status |-> 502,
   body |-> [message |-> "Unexpected token < in JSON at position 0"]]

NetworkFailure ==
  /\ request # NoRequest
  /\ response = NoResponse
  /\ response' = NetworkError
  /\ UNCHANGED <<request, gatewayLog, storeVars, apiVars, resultVars, serverVars,
                 
                 now, sessVars,
                 appVars, cardVars, tokVars, payVars>>

\* every answer the backend at VITE_API_URL can give to a fetch
BackendResponses ==
  {MissingFieldsResponse, NetworkError, BareError, NonJsonResponse}
  \cup {PaymentResponse(gw) : gw \in GatewayOutcomes}

\* the backend seen from the browser: some answer arrives
BackendResponds(resp) ==
  /\ request # NoRequest
  /\ response = NoResponse
  /\ response' = resp
  /\ UNCHANGED <<request, gatewayLog, storeVars, apiVars, resultVars, serverVars,
                 
                 now, sessVars,
                 appVars, cardVars, tokVars, payVars>>

\* ------------------------------------------------------------------------
\* server.js: POST /api/session
\* ------------------------------------------------------------------------
\* which of ANZ_WORLDLINE_PSPID, _API_KEY_ID and _API_SECRET_KEY are set
Environments == [pspid : BOOLEAN, apiKeyId : BOOLEAN, secretApiKey : BOOLEAN]

\* what client.sessions.createSession may answer
SessionOutcomes ==
  {[kind |-> "success", status |-> 201, detail |-> "sess1"],
   [kind |-> "failed", status |-> 403, detail |-> "ACCESS_DENIED"],
   [kind |-> "throws", status |-> 0, detail |-> "ECONNRESET"]}

\* the response the handler writes
SessionHandler(environment, sdk) ==
  IF ~environment.pspid \/ ~environment.apiKeyId
       \/ ~environment.secretApiKey
    THEN Http(500, [error |-> "Missing credentials",
                    message |-> "ANZ_WORLDLINE_PSPID, ANZ_WORLDLINE_API_KEY_ID, or ANZ_WORLDLINE_API_SECRET_KEY not configured in .env.local"])
  ELSE IF sdk.kind = "success"
    THEN Http(200, [clientSessionId |-> sdk.detail, customerId |-> "cust1",
                    clientApiUrl |-> "https://client.api",
                    assetUrl |-> "https://assets"])
  ELSE IF sdk.kind = "failed"
    THEN Http(sdk.status, [error |-> "Failed to create session",
                           details |-> sdk.detail])
  ELSE Http(500, [error |-> "Failed to create session",
                  message |-> sdk.detail])

CreateSession(sdk) ==
  /\ sessionResponse = NoResponse
  /\ sessionResponse' = SessionHandler(env, sdk)
  /\ UNCHANGED <<env, netVars, gatewayLog, storeVars, apiVars, resultVars,
                 now, sessVars, appVars, cardVars, tokVars, payVars>>

SessionResponseSent ==
  /\ sessionResponse # NoResponse
  /\ sessionResponse' = NoResponse
  /\ UNCHANGED <<env, netVars, gatewayLog, storeVars, apiVars, resultVars,
                 now, sessVars, appVars, cardVars, tokVars, payVars>>

\* ------------------------------------------------------------------------
\* Specifications
\* ------------------------------------------------------------------------
\* slot contents the page may be opened with
PageSlots ==
  {NoItem, RawText("not json"),
   JSONstringify(TokenData("tok0", VisaCard, "cust0", 0)),
   JSONstringify([maskedCardNumber |-> maskCardNumber(VisaCard.cardNumber),
                  cardType |-> "VISA"])}

Init ==
  /\ storage \in PageSlots
  /\ storageAvailable \in BOOLEAN
  /\ InitIdle
  /\ env = Configured

SessionActions ==
  \/ \E ok \in BOOLEAN, c \in CustomerIds : SessionSettled(ok, c)
  \/ RetrySession

CardFormInputs ==
  \/ \E card \in TestCards : HandleTestCardChange(card)
  \/ \E name \in {"cardNumber", "cardHolder"} :
       \E value \in TypedValues(name) : HandleInputChange(name, value)

TokenizeActions ==
  \/ HandleTokenize
  \/ \E errs \in SdkValidationResults, enc \in BOOLEAN :
       PaymentProductSettled(errs, enc)
  \/ \E outcome \in EncryptOutcomes, q \in BOOLEAN :
       EncryptSettled(outcome, q)

ChargeActions ==
  \/ \E a \in {Amt100, Amt7799} : HandleAmountChange(a)
  \/ HandleChargeWithToken
  \/ ChargeSettled

\* the browser application with the card form left on its preset card; the
\* backend answers as any backend may
Next ==
  \/ SessionActions
  \/ Mount
  \/ TokenizeActions
  \/ ChargeActions
  \/ HandleClearToken
  \/ \E resp \in BackendResponses : BackendResponds(resp)

Spec == Init /\ [][Next]_vars

\* the page is opened on an empty slot or on a saved token
LiveInit ==
  /\ storage \in {NoItem,
                  JSONstringify(TokenData("tok0", VisaCard, "cust0", 0))}
  /\ storageAvailable = TRUE
  /\ InitIdle
  /\ env = Configured

\* the application where every awaited call settles and the handler is
\* resumed with its result
LiveSpec ==
  /\ LiveInit
  /\ [][Next]_vars
  /\ WF_vars(\E errs \in SdkValidationResults, enc \in BOOLEAN :
               PaymentProductSettled(errs, enc))
  /\ WF_vars(\E outcome \in EncryptOutcomes, q \in BOOLEAN :
               EncryptSettled(outcome, q))
  /\ WF_vars(\E resp \in BackendResponses : BackendResponds(resp))
  /\ WF_vars(ChargeSettled)

\* the card form in full: every way of filling it in, no charge
CardFormNext ==
  \/ SessionActions
  \/ Mount
  \/ CardFormInputs
  \/ TokenizeActions
  \/ HandleClearToken

CardFormSpec == Init /\ [][CardFormNext]_vars

\* the charge of a stored token against server.js
EndToEndNext ==
  \/ Mount
  \/ \E a \in Amounts : HandleAmountChange(a)
  \/ HandleChargeWithToken
  \/ \E gw \in GatewayOutcomes : ProcessPayment(gw)
  \/ NetworkFailure
  \/ ChargeSettled
  \/ HandleClearToken

EndToEndSpec == Init /\ [][EndToEndNext]_vars

\* server.js on its own, called by any client
RequestBodies ==
  LET Opt(key, values) ==
        {<<>>} \cup {<<[k |-> key, v |-> x]>> : x \in values}
      Body(seq) == [k \in {seq[i].k : i \in 1..Len(seq)} |->
                      seq[CHOOSE i \in 1..Len(seq) : seq[i].k = k].v]
  IN  {Body(a \o b \o c \o d \o e) :
         a \in Opt("encryptedPaymentRequest", {"", "tokA"}),
         b \in Opt("cardToken", {"tokA"}),
         c \in Opt("customerId", {"cust1"}),
         d \in Opt("amount", {0, 7799}),
         e \in Opt("currency", {"AUD"})}

ServerInit ==
  /\ storage = NoItem
  /\ storageAvailable = TRUE
  /\ InitIdle
  /\ env \in Environments

ApiRequest(body) ==
  /\ request = NoRequest
  /\ request' = body
  /\ UNCHANGED <<response, gatewayLog, storeVars, apiVars, resultVars, serverVars,
                 
                 now, sessVars,
                 appVars, cardVars, tokVars, payVars>>

ResponseSent ==
  /\ response # NoResponse
  /\ request' = NoRequest
  /\ response' = NoResponse
  /\ UNCHANGED <<gatewayLog, storeVars, apiVars, resultVars, serverVars,
                 now, sessVars, appVars,
                 cardVars, tokVars, payVars>>

ServerNext ==
  \/ \E body \in RequestBodies : ApiRequest(body)
  \/ \E gw \in GatewayOutcomes : ProcessPayment(gw)
  \/ ResponseSent
  \/ \E sdk \in SessionOutcomes : CreateSession(sdk)
  \/ SessionResponseSent

ServerSpec == ServerInit /\ [][ServerNext]_vars

\* ------------------------------------------------------------------------
\* The card form filled in by hand and submitted without a session: local
\* validation on its own
\* ------------------------------------------------------------------------
\* what may be typed into each field
FieldValues(name) ==
  CASE name = "cardNumber" ->
         {Rep("4", 12), Rep("4", 13), Rep("4", 19), Rep("4", 20),
          SpacedNumber, Rep("x", 16)}
    [] name = "expiryDate" ->
         {Expiry1225, <<"1", "/", "2", "5">>, <<"1", "2", "2", "5">>,
          <<"a", "b", "/", "c", "d">>}
    [] name = "cvv" ->
         {<<>>, <<"1", "2">>, <<"1", "2", "3">>, <<"1", "2", "3", "4">>,
          <<"1", "2", "3", "4", "5">>, <<"a", "b", "c">>}
    [] name = "cardHolder" -> {TestUser, <<" ", " ">>, <<>>}

ValidationInit ==
  /\ storage = NoItem
  /\ storageAvailable = TRUE
  /\ InitIdle
  /\ env = Configured

ValidationNext ==
  \/ Mount
  \/ \E name \in {"cardNumber", "expiryDate", "cvv", "cardHolder"} :
       \E value \in FieldValues(name) : HandleInputChange(name, value)
  \/ HandleTokenize

ValidationSpec == ValidationInit /\ [][ValidationNext]_vars

\* ------------------------------------------------------------------------
\* The tokenization flow over card numbers and expiry dates: the form holds
\* one of the inputs below when the page is opened and is then tokenized
\* ------------------------------------------------------------------------
FormInputs ==
  {[VisaCard EXCEPT !.cardNumber = n, !.expiryDate = e] :
     n \in FieldValues("cardNumber")
            \cup {VisaCard.cardNumber, AmexCard.cardNumber},
     e \in FieldValues("expiryDate")
            \cup {<<"0", "1", "/", "3", "0">>, <<"0", "9", "/", "9", "9">>}}

FormatInit ==
  /\ storage = NoItem
  /\ storageAvailable = TRUE
  /\ InitExceptForm
  /\ formData \in FormInputs
  /\ env = Configured

FormatNext ==
  \/ SessionActions
  \/ Mount
  \/ TokenizeActions

FormatSpec == FormatInit /\ [][FormatNext]_vars

\* ------------------------------------------------------------------------
\* The tokenization flow with the race of handleTokenize followed to its
\* end: an encrypt() call that lost against the timer settles later
\* ------------------------------------------------------------------------
TimeoutNext ==
  \/ SessionActions
  \/ Mount
  \/ HandleTokenize
  \/ \E errs \in SdkValidationResults, enc \in BOOLEAN :
       PaymentProductSettled(errs, enc)
  \/ \E outcome \in LateOutcomes, q \in BOOLEAN : EncryptSettled(outcome, q)
  \/ EncryptTimedOut
  \/ \E i \in 1..MaxClock, outcome \in LateOutcomes :
       AbandonedEncryptSettles(i, outcome)
  \/ HandleClearToken

TimeoutSpec == Init /\ [][TimeoutNext]_vars

\* ------------------------------------------------------------------------
\* PaymentStatus (the payment result stage) and the writers of
\* sessionStorage in PaymentForm.handleSubmit.  An absent query parameter
\* or sessionStorage item is the empty string: the code only tests these
\* values for truthiness or against 'true'.
\* ------------------------------------------------------------------------
\* the id the gateway gives to its n-th payment
PaymentId(n) ==
  CASE n = 1 -> "pay1" [] n = 2 -> "pay2" [] n = 3 -> "pay3"
    [] n = 4 -> "pay4" [] n = 5 -> "pay5" [] OTHER -> "payN"

\* sessionStorage.removeItem that leaves the item in place
removeItemKept(store, key) == store

\* sessionStorage.removeItem(key)
removeItem(store, key) == [store EXCEPT ![key] = ""]

\* the effect shows the same-session result before looking at the location
PresentedResultSessionFirst(location, store) ==
  IF store.showPaymentStatus = "true" /\ store.lastPaymentId # ""
    THEN [paymentId |-> store.lastPaymentId,
          status |-> store.lastPaymentStatus, source |-> "SESSION"]
  ELSE IF location.paymentId # "" /\ location.status # ""
    THEN [paymentId |-> location.paymentId, status |-> location.status,
          source |-> "3DS_RETURN"]
  ELSE Null

\* the status the mount effect of PaymentStatus sets (Null: none)
PresentedResult(location, store) ==
  IF location.paymentId # "" /\ location.status # ""
    THEN [paymentId |-> location.paymentId, status |-> location.status,
          source |-> "3DS_RETURN"]
  ELSE IF store.showPaymentStatus = "true" /\ store.lastPaymentId # ""
    THEN [paymentId |-> store.lastPaymentId,
          status |-> store.lastPaymentStatus, source |-> "SESSION"]
  ELSE Null

ResultUnchanged ==
  UNCHANGED <<storeVars, apiVars, serverVars,
              now, sessVars, appVars, cardVars, tokVars,
              payVars, netVars, gatewayLog>>

\* useEffect(() => { ... }, []) of PaymentStatus
StatusMount ==
  /\ url.page = "app"
  /\ ~statusMounted
  /\ statusMounted' = TRUE
  /\ status' = PresentedResult(url, sessionStore)
  /\ IF url.paymentId # "" /\ url.status # ""
       THEN /\ url' = NoParams
            /\ UNCHANGED sessionStore
       ELSE /\ sessionStore' =
                 (IF sessionStore.showPaymentStatus = "true"
                    THEN removeItem(sessionStore, "showPaymentStatus")
                    ELSE sessionStore)
            /\ UNCHANGED url
  /\ shown' = (IF status' = Null THEN shown
               ELSE shown \cup {status'.paymentId})
  /\ UNCHANGED paymentSeq
  /\ ResultUnchanged

\* the 'New Payment' button of the result
NewPayment ==
  /\ url.page = "app"
  /\ status # Null
  /\ sessionStore' = removeItem(removeItem(sessionStore, "lastPaymentId"),
                                "lastPaymentStatus")
  /\ status' = Null
  /\ UNCHANGED <<url, statusMounted, paymentSeq, shown>>
  /\ ResultUnchanged

\* the browser loads the page again at the location it is at
Reload ==
  /\ url.page = "app"
  /\ statusMounted
  /\ status' = Null
  /\ statusMounted' = FALSE
  /\ UNCHANGED <<url, sessionStore, paymentSeq, shown>>
  /\ ResultUnchanged

\* PaymentForm.handleSubmit: the payment succeeded
LegacyPaymentSucceeded(paymentStatus) ==
  /\ url.page = "app"
  /\ paymentSeq < MaxPayments
  /\ paymentSeq' = paymentSeq + 1
  /\ sessionStore' =
       [sessionStore EXCEPT !.lastPaymentId = PaymentId(paymentSeq'),
                            !.lastPaymentStatus = paymentStatus,
                            !.showPaymentStatus = "true"]
  /\ UNCHANGED <<url, status, statusMounted, shown>>
  /\ ResultUnchanged

\* PaymentForm.handleSubmit: 402 with requires3DS, the browser leaves for
\* the redirect target
LegacyChallengeRedirect ==
  /\ url.page = "app"
  /\ paymentSeq < MaxPayments
  /\ paymentSeq' = paymentSeq + 1
  /\ sessionStore' =
       [sessionStore EXCEPT !.pendingPaymentId = PaymentId(paymentSeq')]
  /\ url' = [page |-> "acs", paymentId |-> "", status |-> ""]
  /\ status' = Null
  /\ statusMounted' = FALSE
  /\ UNCHANGED shown
  /\ ResultUnchanged

\* the authentication page sends the browser back with the payment id and,
\* unless it is left out, the status
ReturnFromRedirect(returnStatus) ==
  /\ url.page = "acs"
  /\ url' = [page |-> "app", paymentId |-> sessionStore.pendingPaymentId,
             status |-> returnStatus]
  /\ UNCHANGED <<sessionStore, status, statusMounted, paymentSeq, shown>>
  /\ ResultUnchanged

ResultInit ==
  /\ storage = NoItem
  /\ storageAvailable = TRUE
  /\ InitIdle
  /\ env = Configured

ResultNext ==
  \/ StatusMount
  \/ NewPayment
  \/ Reload
  \/ \E st \in {"CAPTURED", "PENDING_CAPTURE"} : LegacyPaymentSucceeded(st)
  \/ LegacyChallengeRedirect
  \/ \E st \in {"SUCCEEDED", "FAILED", ""} : ReturnFromRedirect(st)

ResultSpec == ResultInit /\ [][ResultNext]_vars

\* ------------------------------------------------------------------------
\* Properties of the tokenization flow (checked under CardFormSpec)
\* ------------------------------------------------------------------------

\* C1: whenever a handleTokenize invocation succeeds, the slot holds one
\* serialised CardToken and load() returns a value equal to the token data
\* that was saved: the opaque token, the masked number, the brand, the
\* holder, the expiry, the customer id and the creation time of this
\* invocation; App's current token is that value too.
C1_TokenizeThenLoad ==
  [][(tokPc = "encrypt" /\ tokPc' = "idle" /\ cardError' = NoError)
       => LET loaded == load(storage', storageAvailable')
              form == tokCtx.form
          IN  /\ storage'.kind = "object"
              /\ IsObject(loaded)
              /\ DOMAIN loaded = {KeyOrder[i] : i \in 1..Len(KeyOrder)}
              /\ loaded.cardToken \in EncryptedTokens
              /\ loaded.maskedCardNumber = maskCardNumber(form.cardNumber)
              /\ loaded.cardType = detectCardType(form.cardNumber)
              /\ loaded.cardHolder = form.cardHolder
              /\ loaded.expiryDate = form.expiryDate
              /\ loaded.customerId = tokCtx.session.customerId
              /\ loaded.createdAt = now'
              /\ JSONparse(tokenHistory'[1].token) =
                   [threw |-> FALSE, val |-> loaded]
              /\ currentToken' = loaded]_vars

\* a card typed with separators was tokenized on top of a stored token
C1_Witness ==
  /\ tokPc = "idle" /\ now >= 1
  /\ HasCardToken(currentToken)
  /\ currentToken.createdAt = now
  /\ currentToken.maskedCardNumber = maskCardNumber(SpacedNumber)
  /\ load(storage, storageAvailable) = currentToken
  /\ Len(tokenHistory) = 2

\* C11 (under CardFormSpec): the store is a single slot and a save replaces
\* it whole: when a tokenization succeeds while the slot already holds a
\* token, load() afterwards equals the token data of this invocation alone
\* (one value per property, the new creation time), not the earlier token.
C11_SaveReplacesPrior ==
  [][(/\ tokPc = "encrypt" /\ tokPc' = "idle" /\ cardError' = NoError
      /\ HasCardToken(load(storage, storageAvailable)))
       => LET old == load(storage, storageAvailable)
              new == load(storage', storageAvailable')
              second == JSONparse(tokenHistory'[1].token).val
          IN  /\ storage'.kind = "object"
              /\ Len(storage'.pairs) = Len(KeyOrder)
              /\ \A i \in 1..Len(KeyOrder) :
                   /\ storage'.pairs[i].k = KeyOrder[i]
                   /\ storage'.pairs[i].v = second[KeyOrder[i]]
              /\ new = second
              /\ new.createdAt = now'
              /\ new # old]_vars

\* two tokenizations in a row succeeded, the second for another brand
C11_Witness ==
  /\ tokPc = "idle" /\ now = 2
  /\ Len(tokenHistory) = 2
  /\ tokenHistory[2].id = JsNumber(1)
  /\ tokenHistory[1].id = JsNumber(2)
  /\ HasCardToken(currentToken)
  /\ load(storage, storageAvailable) = currentToken
  /\ currentToken.createdAt = 2
  /\ JSONparse(tokenHistory[2].token).val.cardType # currentToken.cardType

\* ------------------------------------------------------------------------
\* Properties of the charge flow
\* ------------------------------------------------------------------------

\* C2 (under Spec): a charge submitted while the store is empty (load()
\* finds no token) fails with 'No token found' and issues no request to
\* /api/process-payment.
C2_NoTokenNoRequest ==
  [][(HandleChargeWithToken /\ load(storage, storageAvailable) = Null)
       => /\ payError' = MsgNoToken
          /\ request' = NoRequest
          /\ ~payLoading' /\ payPc' = "idle"
          /\ ~success' /\ lastPaymentId' = NoId]_vars

\* after a token was stored and cleared again, a charge was refused
C2_Witness ==
  /\ mounted /\ storage = NoItem /\ now >= 1
  /\ payError = MsgNoToken
  /\ request = NoRequest /\ ~payLoading

\* C3 (under EndToEndSpec): every charge submitted with a valid saved
\* token that the server has answered reached client.payments.createPayment
\* carrying the token, the customer id, the amount in minor units (7799 for
\* 77.99) and the currency.
C3_ChargeReachesGateway ==
  (/\ response.kind = "http"
   /\ "cardToken" \in DOMAIN request
   /\ request.cardToken # "")
    => \E i \in 1..Len(gatewayLog) :
         /\ gatewayLog[i].op = "createPayment"
         /\ gatewayLog[i].encryptedCustomerInput = request.cardToken
         /\ gatewayLog[i].merchantCustomerId = request.customerId
         /\ gatewayLog[i].amount = request.amount
         /\ gatewayLog[i].currencyCode = request.currency

\* C4 (under Spec): when the answer is a step-up challenge (402 /
\* requires3DS) the flow ends with neither the success state nor an error
\* set.
C4_ChallengeNeitherSuccessNorError ==
  [][(/\ payPc = "fetch" /\ payPc' = "idle"
      /\ response.kind = "http"
      /\ "requires3DS" \in DOMAIN response.body
      /\ "success" \notin DOMAIN response.body)
       => (payError' = NoError /\ ~success')]_vars

\* C5 (under Spec): for every answer that is neither a success nor a
\* step-up challenge (failure envelope, 500, missing-field rejection,
\* transport error, unreadable body) the flow ends with a non-empty error
\* message, without the success state and without a payment id.
C5_FailureNeverSuccess ==
  [][(/\ payPc = "fetch" /\ payPc' = "idle"
      /\ \/ response.kind # "http"
         \/ /\ ("success" \notin DOMAIN response.body
                  \/ response.body.success # TRUE)
            /\ "requires3DS" \notin DOMAIN response.body)
       => /\ payError' # NoError
          /\ \A i \in 1..Len(payError') : payError'[i] # ""
          /\ ~success'
          /\ lastPaymentId' = NoId]_vars

\* a declined charge was reported
C5_Witness ==
  /\ payPc = "idle" /\ ~payLoading
  /\ payError = <<"Payment declined or processing failed">>
  /\ ~success /\ lastPaymentId = NoId

\* C6 (under ServerSpec): when the charge answer carries the status
\* PENDING_CAPTURE, a capture call with the authorized amount was made after
\* the createPayment call and before the success response.
C6_CaptureFollowsCharge ==
  (/\ response.kind = "http"
   /\ "success" \in DOMAIN response.body
   /\ response.body.success = TRUE
   /\ response.body.status = "PENDING_CAPTURE")
    => \E i, j \in 1..Len(gatewayLog) :
         /\ i < j
         /\ gatewayLog[i].op = "createPayment"
         /\ gatewayLog[j].op = "capturePayment"
         /\ gatewayLog[j].amount = gatewayLog[i].amount

\* C7 (under EndToEndSpec): the amount of a charge request is an integer
\* nearest to 100 times the decimal amount typed (never the truncation of a
\* value whose nearest integer is the next one); 10.005 gives 1001.
C7_AmountRounded ==
  [][(HandleChargeWithToken /\ request' # NoRequest)
       => LET dot == CHOOSE i \in 1..Len(amount) : amount[i] = "."
              scale == Pow10(Len(amount) - dot)
              units == DecimalValue(SubSeq(amount, 1, dot - 1)
                                    \o SubSeq(amount, dot + 1, Len(amount)))
              diff == request'.amount * scale - 100 * units
          IN  /\ 2 * diff <= scale
              /\ 0 - scale <= 2 * diff
              /\ (amount = Amt10005 => request'.amount = 1001)
              /\ (amount = Amt7799 => request'.amount = 7799)]_vars

\* a charge of 10.005 is in flight with 1001 minor units
C7_Witness ==
  /\ payPc = "fetch"
  /\ request # NoRequest
  /\ request.amount = 1001

\* ------------------------------------------------------------------------
\* Properties of the token store (checked under StoreSpec)
\* ------------------------------------------------------------------------

\* C8: save(candidate) with a candidate that is null or has no opaque token
\* returns false and leaves the slot exactly as it was before the call.
C8_SaveRejectsInvalid ==
  [][(lastOp' = "save" /\ ~HasCardToken(lastArg'))
       => (lastRet' = [bool |-> FALSE] /\ storage' = storage)]_vars

\* a rejected save happened while the slot held a token and storage worked
C8_Witness ==
  /\ lastOp = "save" /\ ~HasCardToken(lastArg)
  /\ storageAvailable
  /\ slotBefore.kind = "object"
  /\ storage = slotBefore

\* C9: load() returns "none" whenever the slot is empty or the persisted
\* value is not a CardToken-shaped object with a token; it never returns a
\* corrupted or partial value.
C9_LoadNoneOrToken ==
  lastOp = "load" => (lastRet = Null \/ HasCardToken(lastRet))

\* C10: clear() followed by load() returns "none" whatever the slot held;
\* clear() on an already-empty slot of an accessible storage returns true
\* and leaves it empty; a second clear() returns what the first returned.
C10_ClearThenLoad ==
  [][/\ (lastOp = "clear" /\ lastOp' = "load") => lastRet' = Null
     /\ (lastOp' = "clear" /\ storageAvailable /\ storage = NoItem)
          => (lastRet' = [bool |-> TRUE] /\ storage' = NoItem)
     /\ (lastOp = "clear" /\ lastOp' = "clear") => lastRet' = lastRet]_vars

\* clear() was called on an empty slot and succeeded
C10_Witness ==
  /\ lastOp = "clear" /\ slotBefore = NoItem
  /\ lastRet = [bool |-> TRUE] /\ storage = NoItem

\* C12 (under StoreSpec): the three store operations are fail-soft.  When
\* the browser storage throws on every access, save and clear return false,
\* load returns null and the slot is left alone; when only the write throws
\* (quota exceeded), save of a valid token returns false and the slot is
\* left alone.  Every call ends with a result of its own type.
C12_FailSoft ==
  [][/\ (lastOp' = "save" /\ ~storageAvailable)
          => (lastRet' = [bool |-> FALSE] /\ storage' = storage)
     /\ (lastOp' = "load" /\ ~storageAvailable)
          => (lastRet' = Null /\ storage' = storage)
     /\ (lastOp' = "clear" /\ ~storageAvailable)
          => (lastRet' = [bool |-> FALSE] /\ storage' = storage)
     /\ (lastOp' = "save" /\ lastRet' # [bool |-> TRUE]) =>
          (lastRet' = [bool |-> FALSE] /\ storage' = storage)
     /\ \A c \in Candidates :
          save(storage, storageAvailable, TRUE, c) =
            [ret |-> FALSE, slot |-> storage]]_vars

\* a valid token was refused by a working storage that ran out of quota
C12_Witness ==
  /\ lastOp = "save" /\ HasCardToken(lastArg)
  /\ storageAvailable
  /\ lastRet = [bool |-> FALSE]
  /\ slotBefore.kind = "object"
  /\ storage = slotBefore

\* C13 (under ValidationSpec): local validation rejects every input whose
\* card number without blanks is not 13 to 19 digits, whose expiry is not
\* two digits, a slash and two digits, whose cvv is not 3 to 4 digits or
\* whose holder is empty after trim, and the error map it reports has an
\* entry for each of these fields at once.
C13_ValidationRejects ==
  [][HandleTokenize
       => LET AllDigits(s) == \A i \in 1..Len(s) : s[i] \in Digits
              number == SelectSeq(formData.cardNumber, LAMBDA c : c # " ")
              expiry == formData.expiryDate
              failing ==
                {f \in {"cardNumber", "expiryDate", "cvv", "cardHolder"} :
                   \/ /\ f = "cardNumber"
                      /\ ~(Len(number) \in 13..19 /\ AllDigits(number))
                   \/ /\ f = "expiryDate"
                      /\ ~(/\ Len(expiry) = 5
                           /\ expiry[3] = "/"
                           /\ AllDigits(SubSeq(expiry, 1, 2))
                           /\ AllDigits(SubSeq(expiry, 4, 5)))
                   \/ /\ f = "cvv"
                      /\ ~(Len(formData.cvv) \in 3..4
                           /\ AllDigits(formData.cvv))
                   \/ /\ f = "cardHolder"
                      /\ \A i \in 1..Len(formData.cardHolder) :
                           formData.cardHolder[i] = " "}
          IN  /\ failing \subseteq fieldErrors'
              /\ failing # {} => (/\ cardError' = MsgCorrectErrors
                                  /\ tokPc' = "idle"
                                  /\ ~cardLoading')]_vars

\* C14 (under CardFormSpec): when the 5 s timer wins the race, the flow
\* ends with an error of its own kind: the report is not the generic
\* encryption-failure report that a rejected encryption gets.
C14_TimeoutDistinct ==
  [][\A o \in EncryptOutcomes, q \in BOOLEAN :
       (o.kind = "timeout" /\ EncryptSettled(o, q))
         => /\ cardError' # NoError
            /\ \A g \in EncryptOutcomes :
                 g.kind = "rejected"
                   => Head(cardError') # Head(MsgEncryption(g.value))]_vars

\* C15 (under CardFormSpec): once a handleTokenize invocation has ended,
\* with a token or with an error, no client state holds the cvv: the slot
\* and the token history have no cvv property, the SDK request is gone and
\* the cvv field of the form state is empty.
C15_CvvNotRetained ==
  [][(\/ (tokPc # "idle" /\ tokPc' = "idle")
      \/ (HandleTokenize /\ tokPc' = "idle"))
       => /\ \A i \in 1..Len(storage'.pairs) : storage'.pairs[i].k # "cvv"
          /\ \A h \in 1..Len(tokenHistory') :
               \A i \in 1..Len(tokenHistory'[h].token.pairs) :
                 tokenHistory'[h].token.pairs[i].k # "cvv"
          /\ paymentRequest' = Null
          /\ formData'.cvv = <<>>]_vars

\* C16 (under Spec): no request sent to the backend carries the raw card
\* number, the cvv or the expiry date.  The body of POST /api/session is
\* the payment context; the body of POST /api/process-payment has only the
\* properties cardToken, customerId, amount, currency and cardHolder, with
\* the opaque token, the customer id and the holder name as values.
C16_NoCardDataLeavesBrowser ==
  /\ DOMAIN SessionRequestBody = {"countryCode", "currencyCode", "amount"}
  /\ request # NoRequest =>
       /\ DOMAIN request \subseteq
            {"cardToken", "customerId", "amount", "currency", "cardHolder"}
       /\ "cardToken" \in DOMAIN request
            => request.cardToken \in EncryptedTokens \cup {"tok0"}
       /\ "customerId" \in DOMAIN request
            => request.customerId \in CustomerIds \cup {"cust0"}
       /\ "cardHolder" \in DOMAIN request
            => \A card \in TestCards \cup {formData} :
                 request.cardHolder \notin
                   {card.cardNumber, StripSpaces(card.cardNumber),
                    card.cvv, card.expiryDate,
                    WireExpiry(card.expiryDate)}

\* a token made from the form in this session is being charged while the
\* form still holds the card
C16_Witness ==
  /\ payPc = "fetch"
  /\ request # NoRequest
  /\ "cardToken" \in DOMAIN request
  /\ request.cardToken \in EncryptedTokens
  /\ "cardHolder" \in DOMAIN request
  /\ formData.cvv # <<>>

\* ------------------------------------------------------------------------
\* Properties of the payment result stage (checked under ResultSpec)
\* ------------------------------------------------------------------------

\* C17: when PaymentStatus mounts and the location carries both paymentId
\* and status, the result presented is the one of the location, also when
\* a same-session result is pending; the same-session result is presented
\* only when the location does not carry them.
C17_RedirectTakesPrecedence ==
  [][(~statusMounted /\ statusMounted')
       => /\ (url.paymentId # "" /\ url.status # "")
               => status' = [paymentId |-> url.paymentId,
                             status |-> url.status,
                             source |-> "3DS_RETURN"]
          /\ (status' # Null /\ status'.source = "SESSION")
               => /\ (url.paymentId = "" \/ url.status = "")
                  /\ status'.paymentId = sessionStore.lastPaymentId
                  /\ status'.status = sessionStore.lastPaymentStatus]_vars

\* the result of a redirect return is shown while the result of an earlier
\* payment of the session is still pending
C17_Witness ==
  /\ statusMounted
  /\ status # Null
  /\ status.source = "3DS_RETURN"
  /\ status.paymentId = PaymentId(2)
  /\ sessionStore.showPaymentStatus = "true"
  /\ sessionStore.lastPaymentId = PaymentId(1)

\* C18: a result that PaymentStatus has displayed is not displayed again by
\* a later page load whose location carries no redirect parameters: showing
\* the redirect result strips the parameters from the location, showing the
\* same-session result removes the showPaymentStatus flag.
C18_ResultShownOnce ==
  [][(~statusMounted /\ statusMounted')
       => /\ (status' # Null /\ status'.source = "3DS_RETURN")
               => (url'.paymentId = "" /\ url'.status = "")
          /\ (status' # Null /\ status'.source = "SESSION")
               => sessionStore'.showPaymentStatus # "true"
          /\ ((url.paymentId = "" \/ url.status = "") /\ status' # Null)
               => status'.paymentId \notin shown]_vars

\* after a reload nothing is shown although the result displayed before is
\* still in sessionStorage
C18_Witness ==
  /\ statusMounted
  /\ status = Null
  /\ url = NoParams
  /\ sessionStore.lastPaymentId # ""
  /\ sessionStore.lastPaymentId \in shown

\* ------------------------------------------------------------------------
\* Properties of the server (checked under ServerSpec)
\* ------------------------------------------------------------------------

\* C19: when a merchant credential is not configured, POST /api/session
\* answers with a successful response that carries session credentials
\* (demo mode), not with an error.
C19_DemoModeSession ==
  (/\ sessionResponse # NoResponse
   /\ (~env.pspid \/ ~env.apiKeyId \/ ~env.secretApiKey))
    => /\ sessionResponse.status = 200
       /\ "error" \notin DOMAIN sessionResponse.body
       /\ {"clientSessionId", "customerId", "clientApiUrl", "assetUrl"}
            \subseteq DOMAIN sessionResponse.body

\* ------------------------------------------------------------------------
\* C20: the success message of a charge with the saved token (rendered
\* while success is set and a current token exists, with lastPaymentId in
\* it) stays on screen, with the same payment id, across every step other
\* than the start of a new charge (handleChargeWithToken) and the clearing
\* of the token (handleClearToken); nothing else hides it.
\* ------------------------------------------------------------------------
SuccessMessageVisible == success /\ Truthy(currentToken)

C20_SuccessStaysVisible ==
  [][(SuccessMessageVisible /\ lastPaymentId # NoId)
       => \/ SuccessMessageVisible' /\ lastPaymentId' = lastPaymentId
          \/ (payPc = "idle" /\ ~payLoading /\ ~success'
                /\ lastPaymentId' = NoId /\ currentToken' = currentToken)
          \/ (currentToken' = Null /\ ~success' /\ lastPaymentId' = NoId
                /\ tokenHistory' = <<>>)]_vars

\* the message is on screen after the amount was edited and while a later
\* tokenization is under way
C20_Witness ==
  /\ SuccessMessageVisible
  /\ lastPaymentId # NoId
  /\ payPc = "idle"
  /\ amount = Amt7799
  /\ tokPc # "idle"

\* ------------------------------------------------------------------------
\* C21: the maskedCardNumber of a token made by the tokenization flow has
\* the length of the card number without its whitespace, ends with that
\* number's last four characters, and has the mask character "*" in every
\* position before them.
\* ------------------------------------------------------------------------
C21_MaskedNumber ==
  (Truthy(currentToken) /\ now >= 1)
    => LET m == currentToken.maskedCardNumber
           digits == StripSpaces(formData.cardNumber)
           n == Len(digits)
       IN  /\ Len(m) = n
           /\ n >= 4
           /\ SubSeq(m, n - 3, n) = SubSeq(digits, n - 3, n)
           /\ \A i \in 1..(n - 4) : m[i] = "*"

\* a token made from a number typed with blanks: the mask is shorter than
\* the text in the field
C21_Witness ==
  /\ Truthy(currentToken) /\ now >= 1
  /\ formData.cardNumber = SpacedNumber
  /\ Len(currentToken.maskedCardNumber) < Len(formData.cardNumber)

\* ------------------------------------------------------------------------
\* C22: the expiry handed to the encryptor for a form that passed local
\* validation is the two month digits followed by "20" and the two year
\* digits of the MM/YY the form holds.
\* ------------------------------------------------------------------------
C22_WireExpiry ==
  tokPc = "encrypt"
    => LET e == tokCtx.form.expiryDate
       IN  paymentRequest.expiryDate
             = <<e[1], e[2], "2", "0", e[4], e[5]>>

C22_Witness ==
  /\ tokPc = "encrypt"
  /\ tokCtx.form.expiryDate = <<"0", "9", "/", "9", "9">>
  /\ paymentRequest.expiryDate = <<"0", "9", "2", "0", "9", "9">>

\* ------------------------------------------------------------------------
\* C23: within one handleTokenize invocation the encryptor is called only
\* from the step after validateFormData passed on the form the invocation
\* works on, and the slot is written only by the step in which that
\* invocation's encryption call settled with a token: the written item
\* carries an encrypted token and the data of the validated form.
\* ------------------------------------------------------------------------
C23_ValidateEncryptSave ==
  [][/\ (tokPc' = "encrypt")
          => /\ tokPc \in {"getPaymentProduct", "encrypt"}
             /\ validateFormData(tokCtx'.form) = {}
             /\ tokCtx' = tokCtx
     /\ (storage' # storage /\ storage'.kind # "absent")
          => /\ tokPc = "encrypt" /\ tokPc' = "idle"
             /\ validateFormData(tokCtx.form) = {}
             /\ \E t \in EncryptedTokens :
                  storage' = JSONstringify(
                    TokenData(t, tokCtx.form, tokCtx.session.customerId,
                              now'))]_vars

\* the slot holds the token of an invocation that ran on the AMEX card
C23_Witness ==
  /\ tokPc = "idle" /\ now = 1
  /\ storage.kind # "absent"
  /\ Len(tokenHistory) = 1
  /\ HasCardToken(currentToken)
  /\ currentToken.cardType = "AMEX"
  /\ formData = AmexCard

\* ------------------------------------------------------------------------
\* C24: while the form fails validateFormData, no step starts a call of
\* the tokenization flow: from the idle handler no getPaymentProduct call
\* and no encryption call is started, no SDK request is built and no
\* request to the backend is made, whatever the session is.
\* ------------------------------------------------------------------------
C24_NoCallAfterValidationError ==
  [][(tokPc = "idle" /\ validateFormData(formData) # {})
       => /\ tokPc' = "idle"
          /\ ~cardLoading'
          /\ paymentRequest' = Null
          /\ request' = request]_vars

\* the handler has rejected the form although a session exists
C24_Witness ==
  /\ cardError = MsgCorrectErrors
  /\ fieldErrors # {}
  /\ fieldErrors = validateFormData(formData)
  /\ session # Null
  /\ tokPc = "idle" /\ ~cardLoading

\* ------------------------------------------------------------------------
\* C25: when the 5 s timer wins the race, the invocation ends at once with
\* the timeout reported and the slot untouched, and the encrypt() call
\* stays pending; when that call settles later, the slot, the current
\* token, the token history, the reported error and the in-flight flag are
\* all left as they were.
\* ------------------------------------------------------------------------
C25_LateResultIgnored ==
  [][/\ Len(abandoned') > Len(abandoned)
          => /\ cardError' = MsgEncryption("Encryption timeout")
             /\ tokPc' = "idle" /\ ~cardLoading'
             /\ UNCHANGED <<storage, currentToken, tokenHistory>>
     /\ Len(abandoned') < Len(abandoned)
          => UNCHANGED <<storage, currentToken, tokenHistory, cardError,
                         cardLoading, tokPc, fieldErrors>>]_vars

\* the abandoned call has settled and the timeout is still what is reported
C25_Witness ==
  /\ abandoned = <<>>
  /\ cardError = MsgEncryption("Encryption timeout")
  /\ tokPc = "idle" /\ ~cardLoading
  /\ now >= 1

\* ------------------------------------------------------------------------
\* C26: while a handleTokenize invocation is outstanding the Generate
\* button is disabled, and while a handleChargeWithToken invocation is
\* outstanding the Charge button is disabled, so no second invocation of
\* a flow can be started before the first has ended.
\* ------------------------------------------------------------------------
\* CardForm.jsx: disabled={formLoading || loading || !session ||
\* !!currentToken}; PaymentHistory.jsx: disabled={formLoading}
C26_OneInvocationInFlight ==
  /\ tokPc # "idle" => cardLoading
  /\ payPc # "idle" => payLoading

\* one invocation of each flow is outstanding at the same time, the charge
\* response has arrived and the token was cleared meanwhile
C26_Witness ==
  /\ tokPc = "encrypt" /\ cardLoading
  /\ payPc = "fetch" /\ payLoading
  /\ response # NoResponse
  /\ ~Truthy(currentToken)

\* ------------------------------------------------------------------------
\* C27: when every awaited call settles, each handleTokenize and each
\* handleChargeWithToken invocation ends; where it ends its formLoading
\* flag is reset and either the flow succeeded (a token was handed to the
\* App, the charge set success) or an error message is set.
\* ------------------------------------------------------------------------
C27_InvocationsEnd ==
  /\ [][((tokPc # "idle" /\ tokPc' = "idle")
           => (/\ ~cardLoading'
               /\ \/ cardError' # NoError
                  \/ (tokenHistory' # tokenHistory
                        /\ load(storage', storageAvailable) # Null)))
        /\ ((payPc # "idle" /\ payPc' = "idle")
           => (~payLoading' /\ (success' \/ payError' # NoError)))]_vars
  /\ (tokPc # "idle") ~> (tokPc = "idle" /\ ~cardLoading)
  /\ (payPc # "idle") ~> (payPc = "idle" /\ ~payLoading)

\* both flows have run to their end: one with a result, one with an error
C27_Witness ==
  /\ tokPc = "idle" /\ ~cardLoading /\ now >= 1
  /\ payPc = "idle" /\ ~payLoading
  /\ success /\ payError = NoError
  /\ cardError = MsgSaveFailed

\* ------------------------------------------------------------------------
\* C28: a step in which handleTokenize reports a failure (validation,
\* missing session, SDK validation, missing encryptor, encryption error,
\* timeout, empty encryption result, failed save) leaves the slot as it
\* was and does not call onTokenGenerated: the current token and the token
\* history of the App are unchanged.
\* ------------------------------------------------------------------------
C28_FailureLeavesStore ==
  [][(cardError' # NoError /\ <<cardError, tokPc>>' # <<cardError, tokPc>>)
       => UNCHANGED <<storage, currentToken, tokenHistory>>]_vars

\* a save failed while the slot held the token the page was opened with
C28_Witness ==
  /\ cardError = MsgSaveFailed
  /\ tokPc = "idle" /\ now >= 1
  /\ HasCardToken(currentToken)
  /\ currentToken.createdAt = 0
  /\ load(storage, storageAvailable) = currentToken
  /\ Len(tokenHistory) = 1

\* ------------------------------------------------------------------------
\* C29: once the App has mounted, its current token is non-null exactly
\* when the store holds a token (load() returns an object with a
\* cardToken), and the token history is empty whenever the current token
\* is null.
\* ------------------------------------------------------------------------
C29_TokenMatchesStore ==
  mounted
    => /\ (currentToken # Null)
            <=> HasCardToken(load(storage, storageAvailable))
       /\ (currentToken = Null) => (tokenHistory = <<>>)

\* ------------------------------------------------------------------------
\* C30: a charge response that arrives after the token was cleared (the
\* charge is still in flight and the App holds no token) does not bring a
\* success message back: success and the last payment id stay reset, so a
\* token saved afterwards is not shown with the success message of a
\* payment made with the cleared token.
\* ------------------------------------------------------------------------
C30_ClearedChargeStaysReset ==
  [][/\ (payPc = "fetch" /\ payPc' = "idle" /\ currentToken = Null)
          => (~success' /\ lastPaymentId' = NoId)
     /\ (success /\ ~SuccessMessageVisible)
          => ~SuccessMessageVisible']_vars

====
